---- MODULE Spec2Model ----
(***************************************************************************)
(* Citation Scout (backend/app/main.py): the .docx text extraction and     *)
(* normalization pipeline, the citation pattern registry, the matcher      *)
(* with its per-type de-duplication and hash-derived status, the           *)
(* diagnostics reporter and the two request handlers.                      *)
(*                                                                         *)
(* A text is a sequence of characters.  A character is a string: the       *)
(* character itself for printable ASCII, an escape ("\n", "\t") or the     *)
(* name of its code point ("U+00A0") otherwise.                            *)
(***************************************************************************)
EXTENDS Integers, Sequences, FiniteSets, TLC

----------------------------------------------------------------------------
(* Characters and the character categories of Python's re on str patterns. *)

UpperSeq ==
    << "A", "B", "C", "D", "E", "F", "G", "H", "I", "J", "K", "L", "M",
       "N", "O", "P", "Q", "R", "S", "T", "U", "V", "W", "X", "Y", "Z" >>

LowerSeq ==
    << "a", "b", "c", "d", "e", "f", "g", "h", "i", "j", "k", "l", "m",
       "n", "o", "p", "q", "r", "s", "t", "u", "v", "w", "x", "y", "z" >>

DigitSeq == << "0", "1", "2", "3", "4", "5", "6", "7", "8", "9" >>

Range(s) == { s[k] : k \in DOMAIN s }

UpperChars == Range(UpperSeq)

LowerChars == Range(LowerSeq)

Digit09 == Range(DigitSeq)

\* \d : the decimal digits.
DigitChars == Digit09

\* \s on a str pattern, and str.strip(): every character with str.isspace().
SpaceChars ==
    { " ", "\t", "\n", "\r", "\f", "U+000B", "U+001C", "U+001D", "U+001E",
      "U+001F", "U+0085", "U+00A0", "U+1680", "U+2000", "U+2001", "U+2002",
      "U+2003", "U+2004", "U+2005", "U+2006", "U+2007", "U+2008", "U+2009",
      "U+200A", "U+2028", "U+2029", "U+202F", "U+205F", "U+3000" }

\* \w : letters, digits and the underscore.
WordChars == UpperChars \cup LowerChars \cup Digit09 \cup {"_"}

\* The other case of a cased character (re.IGNORECASE compares both cases).
SwapCase ==
    [ c \in UpperChars \cup LowerChars |->
        LET k == CHOOSE j \in 1..26 : UpperSeq[j] = c \/ LowerSeq[j] = c
        IN  IF UpperSeq[k] = c THEN LowerSeq[k] ELSE UpperSeq[k] ]

InClass(c, S, ic) ==
    \/ c \in S
    \/ ic /\ c \in DOMAIN SwapCase /\ SwapCase[c] \in S

----------------------------------------------------------------------------
(* Regular expressions: the syntax tree of a pattern and the backtracking  *)
(* matcher of re.  Ends(r, ic, text, i) lists, in the order in which the   *)
(* matcher tries them, the positions at which a match of r that starts at  *)
(* position i of text can end; the match the matcher reports is the first. *)

Lit(c) == [t |-> "lit", c |-> c]

In(S) == [t |-> "in", s |-> S]

NotIn(S) == [t |-> "notin", s |-> S]

\* A run of literal characters.
Str(chars) == [t |-> "str", chars |-> chars]

Cat(items) == [t |-> "cat", items |-> items]

Alt(items) == [t |-> "alt", items |-> items]

Rep(lo, hi, r) == [t |-> "rep", lo |-> lo, hi |-> hi, inf |-> FALSE, r |-> r]

Opt(r) == Rep(0, 1, r)

Star(r) == [t |-> "rep", lo |-> 0, hi |-> 0, inf |-> TRUE, r |-> r]

Plus(r) == [t |-> "rep", lo |-> 1, hi |-> 1, inf |-> TRUE, r |-> r]

Group(r) == [t |-> "group", r |-> r]

AtBoundary == [t |-> "boundary"]

NotBehind(r) == [t |-> "notbehind", r |-> r]

NotAhead(r) == [t |-> "notahead", r |-> r]

Compile(ic, r) == [ic |-> ic, re |-> r]

IsWordAt(text, i) == i >= 1 /\ i <= Len(text) /\ text[i] \in WordChars

\* The sequence f with every element computed (once).
Tuple(f) == f \o << >>

\* The lists of Ls one after the other, a position kept only where it
\* comes first: a position the matcher has already tried leads to nothing
\* new.  Each list of Ls holds no position twice.
MergeAll(Ls) ==
    LET full == { n \in DOMAIN Ls : Ls[n] # << >> }
    IN  IF full = {} THEN << >>
        ELSE IF Cardinality(full) = 1 THEN Ls[CHOOSE n \in full : TRUE]
        ELSE LET at == UNION { { << n, m >> : m \in DOMAIN Ls[n] } : n \in full }
                 Before(a, b) == a[1] < b[1] \/ (a[1] = b[1] /\ a[2] < b[2])
                 firsts == { a \in at : \A b \in at :
                                Ls[b[1]][b[2]] = Ls[a[1]][a[2]] => ~Before(b, a) }
             IN  Tuple([ j \in 1..Cardinality(firsts) |->
                           LET a == CHOOSE c \in firsts :
                                      Cardinality({ b \in firsts : Before(b, c) }) = j - 1
                           IN  Ls[a[1]][a[2]] ])

IsSingle(r) == r.t \in {"lit", "in", "notin"}

MatchesChar(r, ic, c) ==
    CASE r.t = "lit" -> InClass(c, {r.c}, ic)
      [] r.t = "in" -> InClass(c, r.s, ic)
      [] r.t = "notin" -> ~InClass(c, r.s, ic)

\* How many characters from position i on match the one-character item r,
\* at most limit of them when bounded.
RunLength(r, ic, text, i, bounded, limit) ==
    LET last == IF bounded /\ i + limit <= Len(text) + 1 THEN i + limit ELSE Len(text) + 1
        stop == CHOOSE j \in i..last :
                    /\ j = last \/ ~MatchesChar(r, ic, text[j])
                    /\ \A k \in i..(j - 1) : MatchesChar(r, ic, text[k])
    IN  stop - i

RECURSIVE Ends(_, _, _, _)
RECURSIVE CatFrom(_, _, _, _, _)
RECURSIVE RepEnds(_, _, _, _, _)

\* The positions reached from the positions of front by one match of r.
Advance(r, ic, text, front) ==
    MergeAll(Tuple([ n \in DOMAIN front |-> Ends(r, ic, text, front[n]) ]))

\* The items of a sequence from the k-th on, one after the other.
CatFrom(items, k, ic, text, front) ==
    IF k > Len(items) \/ front = << >> THEN front
    ELSE CatFrom(items, k + 1, ic, text, Advance(items[k], ic, text, front))

\* A greedy repeat: one more iteration first, stopping here last.
RepEnds(r, count, ic, text, i) ==
    LET es == SelectSeq(Ends(r.r, ic, text, i), LAMBDA e : e > i)
        more == IF r.inf \/ count < r.hi
                THEN MergeAll(Tuple([ n \in DOMAIN es |->
                                        RepEnds(r, count + 1, ic, text, es[n]) ]))
                ELSE << >>
        here == IF count >= r.lo THEN << i >> ELSE << >>
    IN  MergeAll(<< more, here >>)

Ends(r, ic, text, i) ==
    CASE IsSingle(r) ->
            IF i <= Len(text) /\ MatchesChar(r, ic, text[i]) THEN << i + 1 >> ELSE << >>
      [] r.t = "str" ->
            IF /\ i + Len(r.chars) <= Len(text) + 1
               /\ \A k \in DOMAIN r.chars : InClass(text[i + k - 1], {r.chars[k]}, ic)
            THEN << i + Len(r.chars) >> ELSE << >>
      [] r.t = "boundary" ->
            IF IsWordAt(text, i - 1) # IsWordAt(text, i) THEN << i >> ELSE << >>
      [] r.t = "notbehind" ->
            IF \E j \in 1..i : \E k \in DOMAIN Ends(r.r, ic, text, j) :
                    Ends(r.r, ic, text, j)[k] = i
            THEN << >> ELSE << i >>
      [] r.t = "notahead" ->
            IF Ends(r.r, ic, text, i) # << >> THEN << >> ELSE << i >>
      [] r.t = "group" -> Ends(r.r, ic, text, i)
      [] r.t = "cat" -> CatFrom(r.items, 1, ic, text, << i >>)
      [] r.t = "alt" ->
            MergeAll(Tuple([ k \in DOMAIN r.items |-> Ends(r.items[k], ic, text, i) ]))
      [] r.t = "rep" ->
            IF IsSingle(r.r)
            THEN \* the run of matching characters, longest first
                 LET n == RunLength(r.r, ic, text, i, ~r.inf, r.hi)
                 IN  IF n < r.lo THEN << >>
                     ELSE Tuple([ k \in 1..(n - r.lo + 1) |-> i + n - k + 1 ])
            ELSE RepEnds(r, 0, ic, text, i)

\* The text from position a up to, not including, position b.
Slice(text, a, b) == Tuple([ k \in 1..(b - a) |-> text[a + k - 1] ])

\* For every position of text at which a match of pattern starts, the
\* position and the end of the match the matcher reports there.
MatchTable(pattern, text) ==
    LET all == { << s, Ends(pattern.re, pattern.ic, text, s) >> : s \in 1..(Len(text) + 1) }
    IN  { << a[1], a[2][1] >> : a \in { b \in all : b[2] # << >> } }

RECURSIVE FindIterFrom(_, _)
\* The scan from position pos: the leftmost match that starts at pos or
\* later, then the scan from that match's end.
FindIterFrom(table, pos) ==
    LET later == { m \in table : m[1] >= pos }
    IN  IF later = {} THEN << >>
        ELSE LET m == CHOOSE a \in later : \A b \in later : a[1] <= b[1]
             IN  << m >> \o FindIterFrom(table, IF m[2] > m[1] THEN m[2] ELSE m[2] + 1)

\* pattern.finditer(text): the non-overlapping matches, left to right; each
\* is the span of group 1, which in every pattern of the registry is the
\* whole match (the assertions around the group have no width).
finditer(pattern, text) == FindIterFrom(MatchTable(pattern, text), 1)

Group1(text, m) == Slice(text, m[1], m[2])

----------------------------------------------------------------------------
(* hashlib.md5 (RFC 1321) over the UTF-8 encoding of a text.  A 32-bit     *)
(* word is the pair << high 16 bits, low 16 bits >>.                       *)

\* The printable ASCII characters, in code order from 32 (the space); the
\* grave accent goes by the name of its code point.
AsciiSeq ==
    << " ", "!", "\"", "#", "$", "%", "&", "'", "(", ")", "*", "+",
       ",", "-", ".", "/", "0", "1", "2", "3", "4", "5", "6", "7",
       "8", "9", ":", ";", "<", "=", ">", "?", "@", "A", "B", "C",
       "D", "E", "F", "G", "H", "I", "J", "K", "L", "M", "N", "O",
       "P", "Q", "R", "S", "T", "U", "V", "W", "X", "Y", "Z", "[",
       "\\", "]", "^", "_", "U+0060", "a", "b", "c", "d", "e", "f", "g",
       "h", "i", "j", "k", "l", "m", "n", "o", "p", "q", "r", "s",
       "t", "u", "v", "w", "x", "y", "z", "{", "|", "}", "~" >>

\* The code points of the other characters of the model.
NamedCodePoint ==
    [ c \in SpaceChars \cup {"U+00A7", "U+200B", "U+2060", "U+FEFF"} |->
        CASE c = " " -> 32 [] c = "\t" -> 9 [] c = "\n" -> 10 [] c = "\r" -> 13
          [] c = "\f" -> 12 [] c = "U+000B" -> 11 [] c = "U+001C" -> 28
          [] c = "U+001D" -> 29 [] c = "U+001E" -> 30 [] c = "U+001F" -> 31
          [] c = "U+0085" -> 133 [] c = "U+00A0" -> 160 [] c = "U+00A7" -> 167
          [] c = "U+1680" -> 5760 [] c = "U+2000" -> 8192 [] c = "U+2001" -> 8193
          [] c = "U+2002" -> 8194 [] c = "U+2003" -> 8195 [] c = "U+2004" -> 8196
          [] c = "U+2005" -> 8197 [] c = "U+2006" -> 8198 [] c = "U+2007" -> 8199
          [] c = "U+2008" -> 8200 [] c = "U+2009" -> 8201 [] c = "U+200A" -> 8202
          [] c = "U+200B" -> 8203 [] c = "U+2028" -> 8232 [] c = "U+2029" -> 8233
          [] c = "U+202F" -> 8239 [] c = "U+205F" -> 8287 [] c = "U+2060" -> 8288
          [] c = "U+3000" -> 12288 [] c = "U+FEFF" -> 65279 ]

\* ord(c)
CodePoint ==
    [ c \in Range(AsciiSeq) |-> 31 + CHOOSE k \in DOMAIN AsciiSeq : AsciiSeq[k] = c ]
        @@ NamedCodePoint

\* c.encode("utf-8")
Utf8Char(c) ==
    LET n == CodePoint[c]
    IN  IF n < 128 THEN << n >>
        ELSE IF n < 2048 THEN << 192 + (n \div 64), 128 + (n % 64) >>
        ELSE << 224 + (n \div 4096), 128 + ((n \div 64) % 64), 128 + (n % 64) >>

RECURSIVE Utf8Range(_, _, _)
Utf8Range(text, a, b) ==
    IF a > b THEN << >>
    ELSE IF a = b THEN Utf8Char(text[a])
    ELSE LET m == (a + b) \div 2
         IN  Utf8Range(text, a, m) \o Utf8Range(text, m + 1, b)

\* text.encode("utf-8")
Utf8(text) == Utf8Range(text, 1, Len(text))

\* The bit operations on 4-bit numbers, tabulated: entry 16 * a + b + 1.
RECURSIVE BitsOp(_, _, _, _)
BitsOp(f, a, b, n) ==
    IF n = 0 THEN 0
    ELSE 2 * BitsOp(f, a \div 2, b \div 2, n - 1)
         + (IF f[(a % 2) + 1][(b % 2) + 1] THEN 1 ELSE 0)

NibbleTable(f) == Tuple([ k \in 1..256 |-> BitsOp(f, (k - 1) \div 16, (k - 1) % 16, 4) ])

AndTable == NibbleTable(<< << FALSE, FALSE >>, << FALSE, TRUE >> >>)

OrTable == NibbleTable(<< << FALSE, TRUE >>, << TRUE, TRUE >> >>)

XorTable == NibbleTable(<< << FALSE, TRUE >>, << TRUE, FALSE >> >>)

\* A bit operation on two 16-bit numbers, nibble by nibble.
Op16(T, a, b) ==
    4096 * T[16 * (a \div 4096) + (b \div 4096) + 1]
    + 256 * T[16 * ((a \div 256) % 16) + ((b \div 256) % 16) + 1]
    + 16 * T[16 * ((a \div 16) % 16) + ((b \div 16) % 16) + 1]
    + T[16 * (a % 16) + (b % 16) + 1]

And32(x, y) == << Op16(AndTable, x[1], y[1]), Op16(AndTable, x[2], y[2]) >>

Or32(x, y) == << Op16(OrTable, x[1], y[1]), Op16(OrTable, x[2], y[2]) >>

Xor32(x, y) == << Op16(XorTable, x[1], y[1]), Op16(XorTable, x[2], y[2]) >>

Not32(x) == << 65535 - x[1], 65535 - x[2] >>

\* Addition modulo 2^32.
Add32(x, y) ==
    LET lo == x[2] + y[2]
    IN  << (x[1] + y[1] + (lo \div 65536)) % 65536, lo % 65536 >>

\* Rotation to the left by s bits, 0 < s < 32.
RotL32(x, s) ==
    LET y == IF s >= 16 THEN << x[2], x[1] >> ELSE x
        r == s % 16
    IN  IF r = 0 THEN y
        ELSE << ((y[1] * (2^r)) % 65536) + (y[2] \div (2^(16 - r))),
                ((y[2] * (2^r)) % 65536) + (y[1] \div (2^(16 - r))) >>

\* floor(2^32 * abs(sin(i + 1))), i = 0..63
MD5_K ==
    << <<55146, 42104>>, <<59591, 46934>>, <<9248, 28891>>, <<49597, 52974>>,
       <<62844, 4015>>, <<18311, 50730>>, <<43056, 17939>>, <<64838, 38145>>,
       <<27008, 39128>>, <<35652, 63407>>, <<65535, 23473>>, <<35164, 55230>>,
       <<27536, 4386>>, <<64920, 29075>>, <<42617, 17294>>, <<18868, 2081>>,
       <<63006, 9570>>, <<49216, 45888>>, <<9822, 23121>>, <<59830, 51114>>,
       <<54831, 4189>>, <<580, 5203>>, <<55457, 59009>>, <<59347, 64456>>,
       <<8673, 52710>>, <<49975, 2006>>, <<62677, 3463>>, <<17754, 5357>>,
       <<43491, 59653>>, <<64751, 41976>>, <<26479, 729>>, <<36138, 19594>>,
       <<65530, 14658>>, <<34673, 63105>>, <<28061, 24866>>, <<64997, 14348>>,
       <<42174, 59972>>, <<19422, 53161>>, <<63163, 19296>>, <<48831, 48240>>,
       <<10395, 32454>>, <<60065, 10234>>, <<54511, 12421>>, <<1160, 7429>>,
       <<55764, 53305>>, <<59099, 39397>>, <<8098, 31992>>, <<50348, 22117>>,
       <<62505, 8772>>, <<17194, 65431>>, <<43924, 9127>>, <<64659, 41017>>,
       <<25947, 22979>>, <<36620, 52370>>, <<65519, 62589>>, <<34180, 24017>>,
       <<28584, 32335>>, <<65068, 59104>>, <<41729, 17172>>, <<19976, 4513>>,
       <<63315, 32386>>, <<48442, 62005>>, <<10967, 53947>>, <<60294, 54161>> >>

\* The per-operation shift amounts.
MD5_S ==
    << 7, 12, 17, 22, 7, 12, 17, 22, 7, 12, 17, 22, 7, 12, 17, 22,
       5, 9, 14, 20, 5, 9, 14, 20, 5, 9, 14, 20, 5, 9, 14, 20,
       4, 11, 16, 23, 4, 11, 16, 23, 4, 11, 16, 23, 4, 11, 16, 23,
       6, 10, 15, 21, 6, 10, 15, 21, 6, 10, 15, 21, 6, 10, 15, 21 >>

MD5_Init ==
    << << 26437, 8961 >>, << 61389, 43913 >>, << 39098, 56574 >>, << 4146, 21622 >> >>

\* The message padded to a multiple of 64 bytes: 0x80, zeros, and the
\* length in bits as 8 little-endian bytes.
MD5_Pad(bytes) ==
    LET n == Len(bytes)
        total == 64 * (((n + 8) \div 64) + 1)
        bits(k) == \* byte k (0 = lowest) of 8 * n
            IF k = 0 THEN (8 * n) % 256
            ELSE IF k = 1 THEN ((8 * n) \div 256) % 256
            ELSE IF k = 2 THEN ((8 * n) \div 65536) % 256
            ELSE 0
    IN  Tuple([ k \in 1..total |->
                  IF k <= n THEN bytes[k]
                  ELSE IF k = n + 1 THEN 128
                  ELSE IF k <= total - 8 THEN 0
                  ELSE bits(k - (total - 8) - 1) ])

\* Word g (0..15) of block blk (0..) of the padded message, little-endian.
MD5_Word(padded, blk, g) ==
    LET o == 64 * blk + 4 * g
    IN  << 256 * padded[o + 4] + padded[o + 3], 256 * padded[o + 2] + padded[o + 1] >>

\* One of the 64 operations on one block.
MD5_Step(st, padded, blk) ==
    LET i == st.i
        f == CASE i < 16 -> Or32(And32(st.b, st.c), And32(Not32(st.b), st.d))
               [] i < 32 -> Or32(And32(st.d, st.b), And32(Not32(st.d), st.c))
               [] i < 48 -> Xor32(st.b, Xor32(st.c, st.d))
               [] OTHER  -> Xor32(st.c, Or32(st.b, Not32(st.d)))
        g == CASE i < 16 -> i
               [] i < 32 -> (5 * i + 1) % 16
               [] i < 48 -> (3 * i + 5) % 16
               [] OTHER  -> (7 * i) % 16
        sum == Add32(Add32(f, st.a), Add32(MD5_K[i + 1], MD5_Word(padded, blk, g)))
    IN  [ i |-> i + 1, a |-> st.d, d |-> st.c, c |-> st.b,
          b |-> Add32(st.b, RotL32(sum, MD5_S[i + 1])) ]

RECURSIVE MD5_Rounds(_, _, _)
MD5_Rounds(st, padded, blk) ==
    IF st.i > 63 THEN st ELSE MD5_Rounds(MD5_Step(st, padded, blk), padded, blk)

RECURSIVE MD5_Blocks(_, _, _)
MD5_Blocks(h, padded, blk) ==
    IF h[1][1] < 0 \/ 64 * blk >= Len(padded) THEN h
    ELSE LET st == MD5_Rounds([ i |-> 0, a |-> h[1], b |-> h[2], c |-> h[3], d |-> h[4] ],
                              padded, blk)
         IN  MD5_Blocks(<< Add32(h[1], st.a), Add32(h[2], st.b),
                           Add32(h[3], st.c), Add32(h[4], st.d) >>, padded, blk + 1)

\* The four state words after the last block; the digest is their bytes,
\* each word lowest byte first.
md5(bytes) == MD5_Blocks(MD5_Init, MD5_Pad(bytes), 0)

\* The value of the last hexadecimal digit of hexdigest(): the low
\* nibble of the highest byte of the fourth word.
LastHexDigit(h) == (h[4][1] \div 256) % 16

----------------------------------------------------------------------------
(* The citation patterns and the registry.                                 *)

CASE_CITATION_PATTERN ==
    Compile(TRUE,
        Cat(<<AtBoundary, Group(Cat(<<In(UpperChars),
        Plus(In(UpperChars \cup LowerChars \cup Digit09 \cup {".", "'", "&", "-", " "})),
        Plus(In(SpaceChars)), Alt(<<Cat(<<Lit("v"), Opt(Lit("."))>>), Cat(<<Str(<<"v",
        "s">>), Opt(Lit("."))>>), Str(<<"v", "e", "r", "s", "u", "s">>)>>),
        Plus(In(SpaceChars)), In(UpperChars),
        Plus(In(UpperChars \cup LowerChars \cup Digit09 \cup {".", "'", "&", "-", " "})),
        Opt(Lit(",")), Plus(In(SpaceChars)), Plus(In(DigitChars)), Plus(In(SpaceChars)),
        Plus(In(UpperChars \cup LowerChars \cup {".", " "})), Star(In(SpaceChars)),
        Plus(In(DigitChars)), Opt(Cat(<<Lit(","), Star(In(SpaceChars)),
        Plus(In(DigitChars))>>)), Cat(<<Plus(In(SpaceChars)), Lit("("), Plus(NotIn({")"})),
        Rep(4, 4, In(DigitChars)), Lit(")")>>)>>)), AtBoundary>>))

SHORT_FORM_PATTERN ==
    Compile(FALSE,
        Cat(<<AtBoundary, Group(Cat(<<In(UpperChars),
        Plus(In(UpperChars \cup LowerChars \cup Digit09 \cup {".", "'", "&", "-", " "})),
        Opt(Lit(",")), Plus(In(SpaceChars)), Plus(In(DigitChars)), Plus(In(SpaceChars)),
        Plus(In(UpperChars \cup LowerChars \cup {".", " "})), Plus(In(SpaceChars)),
        Str(<<"a", "t">>), Plus(In(SpaceChars)), Plus(In(DigitChars))>>)), AtBoundary>>))

STATUTE_CITATION_PATTERN ==
    Compile(TRUE,
        Cat(<<AtBoundary, Group(Cat(<<Plus(In(DigitChars)), Plus(In(SpaceChars)),
        Alt(<<Cat(<<Lit("U"), Opt(Lit(".")), Lit("S"), Opt(Lit(".")), Lit("C"),
        Opt(Lit("."))>>), Cat(<<Lit("U"), Opt(Lit(".")), Lit("S"), Opt(Lit(".")), Lit("C"),
        Opt(Lit(".")), Lit("A"), Opt(Lit("."))>>)>>), Alt(<<Cat(<<Plus(In(SpaceChars)),
        Plus(Lit("U+00A7")), Star(In(SpaceChars))>>), Cat(<<Plus(In(SpaceChars)),
        Str(<<"s", "e", "c">>), Opt(Lit(".")), Plus(In(SpaceChars))>>),
        Cat(<<Plus(In(SpaceChars)), Str(<<"s", "e", "c", "t", "i", "o", "n">>),
        Plus(In(SpaceChars))>>)>>), Plus(In(DigitChars)),
        Star(In(UpperChars \cup LowerChars \cup Digit09 \cup {"-", "."}))>>)),
        AtBoundary>>))

STATE_STATUTE_PATTERN ==
    Compile(TRUE,
        Cat(<<AtBoundary, Group(Cat(<<Alt(<<Cat(<<Str(<<"C", "a", "l">>), Opt(Lit("."))>>),
        Cat(<<Str(<<"C", "a", "l", "i", "f">>), Opt(Lit("."))>>), Cat(<<Lit("N"),
        Opt(Lit(".")), Lit("Y"), Opt(Lit("."))>>), Str(<<"N", "e", "w", " ", "Y", "o", "r",
        "k">>), Cat(<<Str(<<"T", "e", "x">>), Opt(Lit("."))>>), Str(<<"T", "e", "x", "a",
        "s">>), Cat(<<Str(<<"F", "l", "a">>), Opt(Lit("."))>>), Str(<<"F", "l", "o", "r",
        "i", "d", "a">>), Cat(<<Str(<<"I", "l", "l">>), Opt(Lit("."))>>), Str(<<"I", "l",
        "l", "i", "n", "o", "i", "s">>), Cat(<<Str(<<"P", "a">>), Opt(Lit("."))>>),
        Str(<<"P", "e", "n", "n", "s", "y", "l", "v", "a", "n", "i", "a">>)>>),
        Opt(Lit(".")), Plus(In(SpaceChars)), Alt(<<Str(<<"P", "e", "n", "a", "l">>),
        Str(<<"C", "i", "v", "i", "l">>), Cat(<<Str(<<"C", "i", "v">>), Opt(Lit("."))>>),
        Cat(<<Str(<<"F", "a", "m">>), Opt(Lit("."))>>), Cat(<<Str(<<"P", "r", "o", "b">>),
        Opt(Lit("."))>>), Cat(<<Str(<<"G", "o", "v", "t">>), Opt(Lit("."))>>),
        Cat(<<Str(<<"G", "o", "v">>), Opt(Lit("."))>>), Str(<<"H", "e", "a", "l", "t",
        "h">>), Cat(<<Str(<<"S", "a", "f">>), Opt(Lit("."))>>), Str(<<"S", "a", "f", "e",
        "t", "y">>), Cat(<<Str(<<"B", "u", "s">>), Opt(Lit("."))>>), Cat(<<Str(<<"B", "u",
        "s", ".">>), Plus(In(SpaceChars)), Lit("&"), Plus(In(SpaceChars)), Str(<<"P", "r",
        "o", "f">>), Opt(Lit("."))>>), Cat(<<Str(<<"U", "n", "i", "f">>), Opt(Lit("."))>>),
        Str(<<"C", "o", "m", "m", "e", "r", "c", "i", "a", "l">>), Cat(<<Str(<<"C", "o",
        "m">>), Opt(Lit("."))>>), Cat(<<Str(<<"C", "o", "r", "r">>), Opt(Lit("."))>>),
        Cat(<<Str(<<"E", "d">>), Opt(Lit("."))>>), Cat(<<Str(<<"E", "d", "u", "c">>),
        Opt(Lit("."))>>), Cat(<<Str(<<"E", "l", "e", "c">>), Opt(Lit("."))>>), Str(<<"F",
        "i", "s", "h">>), Str(<<"F", "o", "o", "d">>), Cat(<<Str(<<"H", "a", "r", "b">>),
        Opt(Lit("."))>>), Str(<<"H", "a", "r", "b", "o", "r", "s">>), Cat(<<Str(<<"I", "n",
        "s">>), Opt(Lit("."))>>), Cat(<<Str(<<"L", "a", "b">>), Opt(Lit("."))>>),
        Str(<<"L", "a", "b", "o", "r">>), Cat(<<Str(<<"P", "u", "b">>), Opt(Lit("."))>>),
        Str(<<"P", "u", "b", "l", "i", "c">>), Cat(<<Str(<<"R", "e", "v">>),
        Opt(Lit("."))>>), Str(<<"R", "e", "v", "e", "n", "u", "e">>), Cat(<<Str(<<"S", "t",
        "s">>), Opt(Lit("."))>>), Cat(<<Str(<<"S", "t", "s">>), Opt(Lit(".")),
        Plus(In(SpaceChars)), Lit("&"), Plus(In(SpaceChars)), Str(<<"H", "i", "g", "h">>),
        Opt(Lit("."))>>), Cat(<<Str(<<"U", "n", "e", "m", "p">>), Opt(Lit("."))>>),
        Str(<<"U", "n", "e", "m", "p", "l", "o", "y", "m", "e", "n", "t">>),
        Cat(<<Str(<<"V", "e", "h">>), Opt(Lit("."))>>), Str(<<"V", "e", "h", "i", "c", "l",
        "e">>), Cat(<<Str(<<"W", "a", "t">>), Opt(Lit("."))>>), Str(<<"W", "a", "t", "e",
        "r">>), Cat(<<Str(<<"W", "e", "l", "f">>), Opt(Lit("."))>>), Str(<<"W", "e", "l",
        "f", "a", "r", "e">>)>>), Plus(In(SpaceChars)), Opt(Alt(<<Str(<<"C", "o", "d",
        "e">>), Str(<<"L", "a", "w">>), Cat(<<Str(<<"A", "n", "n">>), Opt(Lit("."))>>),
        Str(<<"A", "c", "t", "s">>), Cat(<<Str(<<"S", "t", "a", "t">>), Opt(Lit("."))>>),
        Str(<<"S", "t", "a", "t", "u", "t", "e", "s">>)>>)),
        Alt(<<Cat(<<Plus(In(SpaceChars)), Plus(Lit("U+00A7")), Star(In(SpaceChars))>>),
        Cat(<<Plus(In(SpaceChars)), Str(<<"s", "e", "c">>), Opt(Lit(".")),
        Plus(In(SpaceChars))>>), Cat(<<Plus(In(SpaceChars)), Str(<<"s", "e", "c", "t", "i",
        "o", "n">>), Plus(In(SpaceChars))>>)>>), Plus(In(DigitChars)),
        Star(In(UpperChars \cup LowerChars \cup Digit09 \cup {"-", "."}))>>)),
        AtBoundary>>))

REGULATION_CITATION_PATTERN ==
    Compile(TRUE,
        Cat(<<AtBoundary, Group(Cat(<<Plus(In(DigitChars)), Plus(In(SpaceChars)),
        Cat(<<Lit("C"), Opt(Lit(".")), Lit("F"), Opt(Lit(".")), Lit("R"), Opt(Lit("."))>>),
        Alt(<<Cat(<<Plus(In(SpaceChars)), Plus(Lit("U+00A7")), Star(In(SpaceChars))>>),
        Cat(<<Plus(In(SpaceChars)), Str(<<"s", "e", "c">>), Opt(Lit(".")),
        Plus(In(SpaceChars))>>), Cat(<<Plus(In(SpaceChars)), Str(<<"s", "e", "c", "t", "i",
        "o", "n">>), Plus(In(SpaceChars))>>)>>), Plus(In(DigitChars)), Opt(Cat(<<Lit("."),
        Plus(In(DigitChars))>>)),
        Star(In(UpperChars \cup LowerChars \cup Digit09 \cup {"-", "."}))>>)),
        AtBoundary>>))

STATE_REG_PATTERN ==
    Compile(TRUE,
        Cat(<<AtBoundary, Group(Cat(<<Opt(Alt(<<Cat(<<Str(<<"C", "a", "l">>),
        Opt(Lit("."))>>), Cat(<<Lit("N"), Opt(Lit(".")), Lit("Y"), Opt(Lit("."))>>),
        Cat(<<Str(<<"T", "e", "x">>), Opt(Lit("."))>>), Cat(<<Str(<<"F", "l", "a">>),
        Opt(Lit("."))>>), Cat(<<Str(<<"I", "l", "l">>), Opt(Lit("."))>>), Cat(<<Str(<<"P",
        "a">>), Opt(Lit("."))>>)>>)), Opt(Lit(".")), Star(In(SpaceChars)),
        Opt(Alt(<<Str(<<"C", "o", "d", "e">>), Cat(<<Str(<<"C", "o", "m", "p">>),
        Opt(Lit("."))>>)>>)), Star(In(SpaceChars)), Opt(Str(<<"o", "f">>)),
        Star(In(SpaceChars)), Alt(<<Cat(<<Str(<<"R", "e", "g">>), Opt(Lit("s")),
        Opt(Lit("."))>>), Str(<<"R", "e", "g", "u", "l", "a", "t", "i", "o", "n", "s">>),
        Str(<<"A", "d", "m", "i", "n", "i", "s", "t", "r", "a", "t", "i", "v", "e">>),
        Cat(<<Str(<<"A", "d", "m", "i", "n">>), Opt(Lit("."))>>)>>), Opt(Lit(".")),
        Star(In(SpaceChars)), Opt(Alt(<<Cat(<<Str(<<"t", "i", "t">>), Opt(Lit("."))>>),
        Str(<<"t", "i", "t", "l", "e">>)>>)), Star(In(SpaceChars)), Opt(Lit(".")),
        Star(In(SpaceChars)), Plus(In(DigitChars)), Opt(Cat(<<Lit(","),
        Plus(In(SpaceChars))>>)), Alt(<<Cat(<<Plus(In(SpaceChars)), Plus(Lit("U+00A7")),
        Star(In(SpaceChars))>>), Cat(<<Plus(In(SpaceChars)), Str(<<"s", "e", "c">>),
        Opt(Lit(".")), Plus(In(SpaceChars))>>), Cat(<<Plus(In(SpaceChars)), Str(<<"s", "e",
        "c", "t", "i", "o", "n">>), Plus(In(SpaceChars))>>)>>), Plus(In(DigitChars)),
        Star(In(UpperChars \cup LowerChars \cup Digit09 \cup {"-", "."}))>>)),
        AtBoundary>>))

LAW_REVIEW_PATTERN ==
    Compile(FALSE,
        Cat(<<AtBoundary, Group(Cat(<<Opt(Cat(<<Opt(Cat(<<In(UpperChars),
        Plus(In(UpperChars \cup LowerChars \cup {".", "'", "-", " "})), Opt(Cat(<<Lit(","),
        Star(In(SpaceChars)), Alt(<<Cat(<<Str(<<"J", "r">>), Opt(Lit("."))>>),
        Cat(<<Str(<<"S", "r">>), Opt(Lit("."))>>), Str(<<"I", "I">>), Str(<<"I", "I",
        "I">>), Str(<<"I", "V">>), Lit("V")>>)>>)), Lit(","), Plus(In(SpaceChars))>>)),
        Alt(<<Cat(<<Lit("\""), Plus(NotIn({"\""})), Lit("\"")>>), Cat(<<In(UpperChars),
        Rep(3, 180, NotIn({",", "\n"}))>>)>>), Lit(","), Plus(In(SpaceChars))>>)), Rep(1,
        3, In(DigitChars)), Plus(In(SpaceChars)), In(UpperChars),
        Plus(In(UpperChars \cup LowerChars \cup {".", "&", "'", "-", " "})), Lit("L"),
        Opt(Lit(".")), Star(In(SpaceChars)), Str(<<"R", "e", "v">>), Opt(Lit(".")),
        Plus(In(SpaceChars)), Rep(1, 5, In(DigitChars)), Opt(Cat(<<Lit(","),
        Star(In(SpaceChars)), Rep(1, 5, In(DigitChars))>>)),
        Opt(Cat(<<Star(In(SpaceChars)), Lit("("), Rep(4, 4, In(DigitChars)),
        Lit(")")>>))>>)), AtBoundary>>))

AGENCY_PUBLICATION_PATTERN ==
    Compile(TRUE,
        Cat(<<AtBoundary, Group(Alt(<<Cat(<<Plus(In(DigitChars)), Plus(In(SpaceChars)),
        Str(<<"F", "e", "d">>), Opt(Lit(".")), Plus(In(SpaceChars)), Str(<<"R", "e",
        "g">>), Opt(Lit(".")), Plus(In(SpaceChars)), Plus(In(DigitChars))>>),
        Cat(<<Alt(<<Str(<<"S", "E", "C">>), Cat(<<Lit("S"), Opt(Lit(".")), Lit("E"),
        Opt(Lit(".")), Lit("C"), Opt(Lit("."))>>)>>), Plus(In(SpaceChars)),
        Alt(<<Str(<<"R", "e", "l", "e", "a", "s", "e">>), Cat(<<Str(<<"R", "e", "l">>),
        Opt(Lit("."))>>), Cat(<<Str(<<"N", "o">>), Opt(Lit("."))>>)>>),
        Star(In(SpaceChars)), Opt(Cat(<<Str(<<"N", "o">>), Opt(Lit(".")),
        Star(In(SpaceChars))>>)),
        Plus(In(UpperChars \cup LowerChars \cup Digit09 \cup {"-", "/"}))>>),
        Cat(<<Alt(<<Str(<<"F", "D", "A">>), Str(<<"F", "o", "o", "d", " ", "a", "n", "d",
        " ", "D", "r", "u", "g", " ", "A", "d", "m", "i", "n", "i", "s", "t", "r", "a",
        "t", "i", "o", "n">>)>>), Plus(In(SpaceChars)), Str(<<"G", "u", "i", "d", "a", "n",
        "c", "e">>), Opt(Cat(<<Plus(In(SpaceChars)), Str(<<"f", "o", "r">>),
        Plus(In(SpaceChars)), Str(<<"I", "n", "d", "u", "s", "t", "r", "y">>)>>)),
        Opt(Cat(<<In({":", "-"}), Star(In(SpaceChars)), In(UpperChars), Plus(NotIn({".",
        ";", "\n"}))>>))>>), Cat(<<Alt(<<Str(<<"E", "P", "A">>), Str(<<"E", "n", "v", "i",
        "r", "o", "n", "m", "e", "n", "t", "a", "l", " ", "P", "r", "o", "t", "e", "c",
        "t", "i", "o", "n", " ", "A", "g", "e", "n", "c", "y">>)>>), Plus(In(SpaceChars)),
        Alt(<<Str(<<"G", "u", "i", "d", "a", "n", "c", "e">>), Str(<<"F", "i", "n", "a",
        "l", " ", "R", "u", "l", "e">>), Str(<<"R", "e", "p", "o", "r", "t">>), Str(<<"T",
        "e", "c", "h", "n", "i", "c", "a", "l", " ", "D", "o", "c", "u", "m", "e", "n",
        "t">>), Str(<<"N", "o", "t", "i", "c", "e">>)>>), Opt(Cat(<<In({":", "-"}),
        Star(In(SpaceChars)), In(UpperChars), Plus(NotIn({".", ";", "\n"}))>>))>>)>>)),
        AtBoundary>>))

FOREIGN_LAW_PATTERN ==
    Compile(TRUE,
        Cat(<<NotBehind(In(WordChars)), Group(Alt(<<Cat(<<Lit("["), Rep(4, 4,
        In(DigitChars)), Lit("]"), Plus(In(SpaceChars)), Str(<<"U", "K", "S", "C">>),
        Plus(In(SpaceChars)), Plus(In(DigitChars))>>), Cat(<<Lit("["), Rep(4, 4,
        In(DigitChars)), Lit("]"), Plus(In(SpaceChars)), Plus(In(DigitChars)),
        Plus(In(SpaceChars)), Str(<<"A", "C">>), Plus(In(SpaceChars)),
        Plus(In(DigitChars))>>), Cat(<<Str(<<"C", "a", "s", "e">>), Plus(In(SpaceChars)),
        Str(<<"C", "-">>), Plus(In(DigitChars)), Lit("/"), Plus(In(DigitChars))>>),
        Cat(<<Str(<<"D", "i", "r", "e", "c", "t", "i", "v", "e">>), Plus(In(SpaceChars)),
        Rep(4, 4, In(DigitChars)), Lit("/"), Plus(In(DigitChars)), Str(<<"/", "E",
        "U">>)>>), Cat(<<Lit("["), Rep(4, 4, In(DigitChars)), Lit("]"),
        Plus(In(SpaceChars)), Plus(In(DigitChars)), Plus(In(SpaceChars)), Str(<<"S", "C",
        "R">>), Plus(In(SpaceChars)), Plus(In(DigitChars))>>), Cat(<<Lit("["), Rep(4, 4,
        In(DigitChars)), Lit("]"), Plus(In(SpaceChars)), Str(<<"H", "C", "A">>),
        Plus(In(SpaceChars)), Plus(In(DigitChars))>>)>>)), NotAhead(In(WordChars))>>))

CONSTITUTIONAL_PATTERN ==
    Compile(TRUE,
        Cat(<<AtBoundary, Group(Cat(<<Alt(<<Cat(<<Lit("U"), Opt(Lit(".")), Lit("S"),
        Opt(Lit(".")), Plus(In(SpaceChars)), Str(<<"C", "o", "n", "s", "t">>),
        Opt(Lit("."))>>), Cat(<<Alt(<<Cat(<<Str(<<"A", "l", "a">>), Opt(Lit("."))>>),
        Str(<<"A", "l", "a", "s", "k", "a">>), Cat(<<Str(<<"A", "r", "i", "z">>),
        Opt(Lit("."))>>), Cat(<<Str(<<"A", "r", "k">>), Opt(Lit("."))>>), Cat(<<Str(<<"C",
        "a", "l">>), Opt(Lit("."))>>), Cat(<<Str(<<"C", "a", "l", "i", "f">>),
        Opt(Lit("."))>>), Cat(<<Str(<<"C", "o", "l", "o">>), Opt(Lit("."))>>),
        Cat(<<Str(<<"C", "o", "n", "n">>), Opt(Lit("."))>>), Cat(<<Str(<<"D", "e", "l">>),
        Opt(Lit("."))>>), Cat(<<Str(<<"F", "l", "a">>), Opt(Lit("."))>>), Cat(<<Str(<<"G",
        "a">>), Opt(Lit("."))>>), Cat(<<Str(<<"H", "a", "w">>), Opt(Lit("."))>>),
        Str(<<"I", "d", "a", "h", "o">>), Cat(<<Str(<<"I", "l", "l">>), Opt(Lit("."))>>),
        Cat(<<Str(<<"I", "n", "d">>), Opt(Lit("."))>>), Str(<<"I", "o", "w", "a">>),
        Cat(<<Str(<<"K", "a", "n">>), Opt(Lit("."))>>), Cat(<<Str(<<"K", "y">>),
        Opt(Lit("."))>>), Cat(<<Str(<<"L", "a">>), Opt(Lit("."))>>), Str(<<"M", "a", "i",
        "n", "e">>), Cat(<<Str(<<"M", "d">>), Opt(Lit("."))>>), Cat(<<Str(<<"M", "a", "s",
        "s">>), Opt(Lit("."))>>), Cat(<<Str(<<"M", "i", "c", "h">>), Opt(Lit("."))>>),
        Cat(<<Str(<<"M", "i", "n", "n">>), Opt(Lit("."))>>), Cat(<<Str(<<"M", "i", "s",
        "s">>), Opt(Lit("."))>>), Cat(<<Str(<<"M", "o">>), Opt(Lit("."))>>),
        Cat(<<Str(<<"M", "o", "n", "t">>), Opt(Lit("."))>>), Cat(<<Str(<<"N", "e", "b">>),
        Opt(Lit("."))>>), Cat(<<Str(<<"N", "e", "v">>), Opt(Lit("."))>>), Cat(<<Lit("N"),
        Opt(Lit(".")), Lit("H"), Opt(Lit("."))>>), Cat(<<Lit("N"), Opt(Lit(".")), Lit("J"),
        Opt(Lit("."))>>), Cat(<<Lit("N"), Opt(Lit(".")), Lit("M"), Opt(Lit("."))>>),
        Cat(<<Lit("N"), Opt(Lit(".")), Lit("Y"), Opt(Lit("."))>>), Cat(<<Lit("N"),
        Opt(Lit(".")), Lit("C"), Opt(Lit("."))>>), Cat(<<Lit("N"), Opt(Lit(".")), Lit("D"),
        Opt(Lit("."))>>), Str(<<"O", "h", "i", "o">>), Cat(<<Str(<<"O", "k", "l", "a">>),
        Opt(Lit("."))>>), Cat(<<Str(<<"O", "r">>), Opt(Lit("."))>>), Cat(<<Str(<<"P",
        "a">>), Opt(Lit("."))>>), Cat(<<Lit("R"), Opt(Lit(".")), Lit("I"),
        Opt(Lit("."))>>), Cat(<<Lit("S"), Opt(Lit(".")), Lit("C"), Opt(Lit("."))>>),
        Cat(<<Lit("S"), Opt(Lit(".")), Lit("D"), Opt(Lit("."))>>), Cat(<<Str(<<"T", "e",
        "n", "n">>), Opt(Lit("."))>>), Cat(<<Str(<<"T", "e", "x">>), Opt(Lit("."))>>),
        Str(<<"U", "t", "a", "h">>), Cat(<<Str(<<"V", "t">>), Opt(Lit("."))>>),
        Cat(<<Str(<<"V", "a">>), Opt(Lit("."))>>), Cat(<<Str(<<"W", "a", "s", "h">>),
        Opt(Lit("."))>>), Cat(<<Lit("W"), Opt(Lit(".")), Str(<<"V", "a">>),
        Opt(Lit("."))>>), Cat(<<Str(<<"W", "i", "s">>), Opt(Lit("."))>>), Cat(<<Str(<<"W",
        "y", "o">>), Opt(Lit("."))>>)>>), Plus(In(SpaceChars)), Str(<<"C", "o", "n", "s",
        "t">>), Opt(Lit("."))>>)>>), Plus(Cat(<<Star(In(SpaceChars)), Opt(Lit(",")),
        Star(In(SpaceChars)), Alt(<<Cat(<<Str(<<"a", "m", "e", "n", "d">>), Opt(Lit(".")),
        Star(In(SpaceChars)), Plus(In({"I", "V", "X", "L", "C"}))>>), Cat(<<Str(<<"a", "r",
        "t">>), Opt(Lit(".")), Star(In(SpaceChars)), Plus(In({"I", "V", "X", "L",
        "C"}))>>), Cat(<<Str(<<"s", "e", "c">>), Opt(Lit(".")), Star(In(SpaceChars)),
        Plus(In(DigitChars)), Star(In(UpperChars \cup LowerChars \cup {"-"}))>>),
        Cat(<<Str(<<"c", "l">>), Opt(Lit(".")), Star(In(SpaceChars)),
        Plus(In(DigitChars))>>), Cat(<<Str(<<"p", "t">>), Opt(Lit(".")),
        Star(In(SpaceChars)), Plus(In({"I", "V", "X", "L", "C"}))>>), Cat(<<Str(<<"p", "a",
        "r", "a">>), Opt(Lit(".")), Star(In(SpaceChars)),
        Plus(In(DigitChars))>>)>>)>>))>>)), AtBoundary>>))

PATTERN_SPECS ==
    << << "case", CASE_CITATION_PATTERN >>,
       << "case_short", SHORT_FORM_PATTERN >>,
       << "statute", STATUTE_CITATION_PATTERN >>,
       << "statute_state", STATE_STATUTE_PATTERN >>,
       << "regulation", REGULATION_CITATION_PATTERN >>,
       << "regulation_state", STATE_REG_PATTERN >>,
       << "law_review", LAW_REVIEW_PATTERN >>,
       << "agency_publication", AGENCY_PUBLICATION_PATTERN >>,
       << "foreign_law", FOREIGN_LAW_PATTERN >>,
       << "constitutional", CONSTITUTIONAL_PATTERN >> >>

----------------------------------------------------------------------------
(* The matcher and the diagnostics reporter.                               *)

\* str.strip(): without the leading and trailing whitespace.
strip(text) ==
    LET solid == { k \in DOMAIN text : text[k] \notin SpaceChars }
    IN  IF solid = {} THEN << >>
        ELSE LET first == CHOOSE k \in solid : \A j \in solid : k <= j
                 last == CHOOSE k \in solid : \A j \in solid : k >= j
             IN  Slice(text, first, last + 1)

mock_validation_status(citation_text) ==
    LET digest == md5(Utf8(citation_text))
        bucket == LastHexDigit(digest) % 3
    IN  IF bucket = 0 THEN "valid"
        ELSE IF bucket = 1 THEN "review"
        ELSE "invalid"

RECURSIVE NewestFirstLoop(_, _, _, _, _, _)
\* A variant of the loop that puts each new record in front of the others.
NewestFirstLoop(text, citation_type, found, k, seen, matches) ==
    IF k > Len(found) THEN matches
    ELSE LET value == strip(Group1(text, found[k]))
         IN  IF value \notin seen
             THEN NewestFirstLoop(text, citation_type, found, k + 1, seen \cup {value},
                      << [ type |-> citation_type, text |-> value,
                           status |-> mock_validation_status(value) ] >> \o matches)
             ELSE NewestFirstLoop(text, citation_type, found, k + 1, seen, matches)

RECURSIVE PositionalStatusLoop(_, _, _, _, _, _)
\* A variant of the loop whose status depends on the place of the match in the
\* scan, not on its text.
PositionalStatusLoop(text, citation_type, found, k, seen, matches) ==
    IF k > Len(found) THEN matches
    ELSE LET value == strip(Group1(text, found[k]))
             bucket == k % 3
             status == IF bucket = 0 THEN "valid"
                       ELSE IF bucket = 1 THEN "review"
                       ELSE "invalid"
         IN  IF value \notin seen
             THEN PositionalStatusLoop(text, citation_type, found, k + 1, seen \cup {value},
                      Append(matches, [ type |-> citation_type, text |-> value,
                                        status |-> status ]))
             ELSE PositionalStatusLoop(text, citation_type, found, k + 1, seen, matches)

RECURSIVE FindCitationsLoop(_, _, _, _, _, _)
\* The loop of find_citations from the k-th match on, with the texts seen
\* and the records appended so far.
FindCitationsLoop(text, citation_type, found, k, seen, matches) ==
    IF k > Len(found) THEN matches
    ELSE LET value == strip(Group1(text, found[k]))
         IN  IF value \notin seen
             THEN FindCitationsLoop(text, citation_type, found, k + 1, seen \cup {value},
                      Append(matches, [ type |-> citation_type, text |-> value,
                                        status |-> mock_validation_status(value) ]))
             ELSE FindCitationsLoop(text, citation_type, found, k + 1, seen, matches)

\* A variant of find_citations without the set of seen texts: a record for
\* every match.
EveryMatch(text, citation_type, pattern) ==
    LET found == finditer(pattern, text)
    IN  Tuple([ k \in DOMAIN found |->
            LET value == strip(Group1(text, found[k]))
            IN  [ type |-> citation_type, text |-> value,
                  status |-> mock_validation_status(value) ] ])

find_citations(text, citation_type, pattern) ==
    FindCitationsLoop(text, citation_type, finditer(pattern, text), 1, {}, << >>)

RECURSIVE ExtendAll(_, _, _)
\* The loop of upload_docx over the registry from the k-th entry on.
ExtendAll(text, pattern_specs, k) ==
    IF k > Len(pattern_specs) THEN << >>
    ELSE find_citations(text, pattern_specs[k][1], pattern_specs[k][2])
            \o ExtendAll(text, pattern_specs, k + 1)

\* upload_docx, lines 279-281: the citation list of a buffer.
Citations(text) == ExtendAll(text, PATTERN_SPECS, 1)

\* A variant of the slice that ignores the limit.
TakeAll(matches, sample_limit) == matches

\* matches[:sample_limit], sample_limit >= 0
Take(matches, sample_limit) ==
    SubSeq(matches, 1, IF sample_limit < Len(matches) THEN sample_limit ELSE Len(matches))

\* A variant of the reporter that counts every match of a recognizer, repeats
\* included.
CountEveryMatch(text, pattern_specs, sample_limit) ==
    Tuple([ k \in DOMAIN pattern_specs |->
        LET matches == find_citations(text, pattern_specs[k][1], pattern_specs[k][2])
            shown == Take(matches, sample_limit)
        IN  [ type |-> pattern_specs[k][1],
              match_count |-> Len(finditer(pattern_specs[k][2], text)),
              samples |-> Tuple([ j \in DOMAIN shown |-> shown[j].text ]) ] ])

build_pattern_diagnostics(text, pattern_specs, sample_limit) ==
    Tuple([ k \in DOMAIN pattern_specs |->
        LET matches == find_citations(text, pattern_specs[k][1], pattern_specs[k][2])
            shown == Take(matches, sample_limit)
        IN  [ type |-> pattern_specs[k][1],
              match_count |-> Len(matches),
              samples |-> Tuple([ j \in DOMAIN shown |-> shown[j].text ]) ] ])

----------------------------------------------------------------------------
(* Text extraction and normalization.                                      *)
(*                                                                         *)
(* A parsed document is what the code reads of it:                         *)
(*   body  the paragraphs of the main part in document order, each         *)
(*         [in_table, runs]: the w:t text nodes of the paragraph, and      *)
(*         whether the paragraph lies in a table cell (document.paragraphs *)
(*         holds only those that do not);                                  *)
(*   rels  the relationships of the main part, each [reltype, part]; a     *)
(*         part is [has_element, entries], entries the children of its     *)
(*         XML root in order, each [footnote, type, paragraphs]: whether   *)
(*         the child is a w:footnote element, its w:type attribute ("" if  *)
(*         absent) and its paragraphs, each the texts of its w:t nodes.    *)
(* A w:t node without text has the empty text.                             *)

None == << >>

Some(v) == << v >>

\* All of seqs[a..b], one after the other.
RECURSIVE FlattenRange(_, _, _)
FlattenRange(seqs, a, b) ==
    IF a > b THEN << >>
    ELSE IF a = b THEN seqs[a]
    ELSE LET m == (a + b) \div 2
         IN  FlattenRange(seqs, a, m) \o FlattenRange(seqs, m + 1, b)

Flatten(seqs) == FlattenRange(seqs, 1, Len(seqs))

\* sep.join(parts), sep one character
Join(sep, parts) ==
    Flatten([ k \in DOMAIN parts |-> IF k = 1 THEN parts[k] ELSE << sep >> \o parts[k] ])

\* The texts of texts that are not empty once stripped, stripped.
CleanedNonEmpty(texts) ==
    SelectSeq(Tuple([ k \in DOMAIN texts |-> strip(texts[k]) ]), LAMBDA t : t # << >>)

\* paragraph.text: the text of the runs of a paragraph.
ParagraphText(paragraph) == Flatten(paragraph.runs)

\* document.paragraphs
DocumentParagraphs(document) == SelectSeq(document.body, LAMBDA p : ~p.in_table)

_extract_non_empty_paragraphs(paragraphs) ==
    CleanedNonEmpty(Tuple([ k \in DOMAIN paragraphs |-> ParagraphText(paragraphs[k]) ]))

\* element.xpath(".//w:t") of a related part: the text nodes in document order.
PartTextNodes(part) ==
    Flatten(Tuple([ k \in DOMAIN part.entries |-> Flatten(part.entries[k].paragraphs) ]))

\* The main part: its element holds the body, tables included.
MainPart(document) ==
    [ has_element |-> TRUE,
      entries |-> << [ footnote |-> FALSE, type |-> "",
                       paragraphs |-> Tuple([ k \in DOMAIN document.body |->
                                                document.body[k].runs ]) ] >> ]

_extract_text_from_part_xml(part) ==
    IF ~part.has_element THEN << >>
    ELSE CleanedNonEmpty(PartTextNodes(part))

\* reltype.endswith(suffix); a relationship type is modelled by its last segment.
RelTypeEndsWith(rel, suffixes) == rel.reltype \in suffixes

_extract_related_part_text(document) ==
    LET rel_suffixes == {"/header", "/footer", "/footnotes", "/endnotes", "/comments"}
    IN  Flatten(Tuple([ k \in DOMAIN document.rels |->
            IF ~RelTypeEndsWith(document.rels[k], rel_suffixes) THEN << >>
            ELSE _extract_text_from_part_xml(document.rels[k].part) ]))

\* The paragraphs of one w:footnote element that _extract_footnote_paragraphs keeps.
FootnoteParagraphs(footnote) ==
    IF footnote.type # "" THEN << >>
    ELSE SelectSeq(Tuple([ k \in DOMAIN footnote.paragraphs |->
                             strip(Flatten(footnote.paragraphs[k])) ]),
                   LAMBDA t : t # << >>)

_extract_footnote_paragraphs(document) ==
    Flatten(Tuple([ k \in DOMAIN document.rels |->
        LET rel == document.rels[k]
            footnotes == SelectSeq(rel.part.entries, LAMBDA e : e.footnote)
        IN  IF ~RelTypeEndsWith(rel, {"/footnotes"}) \/ ~rel.part.has_element THEN << >>
            ELSE Flatten(Tuple([ j \in DOMAIN footnotes |->
                                   FootnoteParagraphs(footnotes[j]) ])) ]))

\* text.translate(str.maketrans(replacements)) of normalize_extracted_text
Translate(text) ==
    LET to_space == {"U+00A0", "U+2007", "U+2009", "U+200A", "U+202F"}
        to_nothing == {"U+2060", "U+FEFF"}
        kept == SelectSeq(text, LAMBDA c : c \notin to_nothing)
    IN  Tuple([ k \in DOMAIN kept |-> IF kept[k] \in to_space THEN " " ELSE kept[k] ])

WHITESPACE_RUN == Compile(FALSE, Plus(In(SpaceChars)))

\* text with each of the matches found replaced by the character repl.
Replace(found, repl, text) ==
    LET starts == { found[k][1] : k \in DOMAIN found }
        inside == { j \in DOMAIN text : \E k \in DOMAIN found :
                                           found[k][1] < j /\ j < found[k][2] }
        rest == SelectSeq(Tuple([ j \in DOMAIN text |-> j ]), LAMBDA j : j \notin inside)
    IN  Tuple([ n \in DOMAIN rest |-> IF rest[n] \in starts THEN repl ELSE text[rest[n]] ])

\* re.sub(pattern, repl, text) for a replacement of one character.
Sub(pattern, repl, text) == Replace(finditer(pattern, text), repl, text)

\* A variant of the normalizer that collapses the whitespace before it
\* substitutes the characters.
CollapseThenTranslate(text) ==
    strip(Translate(Sub(WHITESPACE_RUN, " ", text)))

normalize_extracted_text(text) ==
    LET normalized == Translate(text)
    IN  strip(Sub(WHITESPACE_RUN, " ", normalized))

\* The chunks extract_docx_text collects from a parsed document, in order.
ExtractedChunks(document) ==
    _extract_text_from_part_xml(MainPart(document))
        \o _extract_non_empty_paragraphs(DocumentParagraphs(document))
        \o _extract_footnote_paragraphs(document)
        \o _extract_related_part_text(document)

----------------------------------------------------------------------------
(* The request handlers.                                                   *)
(*                                                                         *)
(* An uploaded file is [filename, payload]: the filename is None or the    *)
(* characters of the name; the payload is [length, package], its number of *)
(* bytes and, when the bytes are a .docx package, the document the parser  *)
(* makes of them.  A handler's outcome is                                  *)
(*   raised  None, or the exception that ended the request;                *)
(*   body    None, or the returned record;                                 *)
(*   calls   the functions entered, in order;                              *)
(*   chunks  None, or the extracted_chunks of extract_docx_text.           *)

DocxSuffix == <<".", "d", "o", "c", "x">>

PreviewLimit == 2000

DefaultSampleLimit == 5

\* str.lower()
lower(name) ==
    Tuple([ k \in DOMAIN name |-> IF name[k] \in UpperChars THEN SwapCase[name[k]] ELSE name[k] ])

\* str.endswith(suffix)
endswith(name, suffix) ==
    /\ Len(suffix) <= Len(name)
    /\ Slice(name, Len(name) - Len(suffix) + 1, Len(name) + 1) = suffix

HTTPException(status_code, detail) ==
    [ kind |-> "HTTPException", status_code |-> status_code, detail |-> detail ]

\* None has no attribute lower: the exception leaves the handler uncaught and
\* the framework answers 500.
AttributeError ==
    [ kind |-> "AttributeError", status_code |-> 500, detail |-> "Internal Server Error" ]

Raise(exception, calls) ==
    [ raised |-> Some(exception), value |-> None, calls |-> calls, chunks |-> None ]

\* Document(io.BytesIO(file_bytes)): the parser, a black box that fails on
\* bytes that are not a .docx package.
Document(file_bytes) == file_bytes.package

\* extract_docx_text once the parser has returned a document.
ExtractFrom(extracted_chunks, calls) ==
    [ raised |-> None,
      value |-> Some(normalize_extracted_text(Join("\n", extracted_chunks))),
      calls |-> calls \o << "normalize_extracted_text" >>,
      chunks |-> Some(extracted_chunks) ]

extract_docx_text(file_bytes, calls) ==
    LET entered == calls \o << "extract_docx_text", "Document" >>
        document == Document(file_bytes)
    IN  IF document = None
        THEN Raise(HTTPException(400, "Unable to parse .docx file."), entered)
        ELSE ExtractFrom(ExtractedChunks(document[1]), entered)

\* A variant of read_docx_upload that hands every payload to the parser.
ReadWithoutEmptyCheck(file) ==
    LET entered == << "read_docx_upload" >>
    IN  IF file.filename = None THEN Raise(AttributeError, entered)
        ELSE IF ~endswith(lower(file.filename[1]), DocxSuffix)
        THEN Raise(HTTPException(400, "Only .docx files are supported."), entered)
        ELSE extract_docx_text(file.payload, entered)

read_docx_upload(file) ==
    LET entered == << "read_docx_upload" >>
    IN  IF file.filename = None THEN Raise(AttributeError, entered)
        ELSE IF ~endswith(lower(file.filename[1]), DocxSuffix)
        THEN Raise(HTTPException(400, "Only .docx files are supported."), entered)
        ELSE IF file.payload.length = 0
        THEN Raise(HTTPException(400, "Uploaded file is empty."), entered)
        ELSE extract_docx_text(file.payload, entered)

\* text[:2000] + "..." if len(text) > 2000 else text
Preview(text) ==
    IF Len(text) > PreviewLimit
    THEN Slice(text, 1, PreviewLimit + 1) \o << ".", ".", "." >>
    ELSE text

\* The end of a handler whose call of read_docx_upload raised.
Propagate(read) ==
    [ raised |-> read.raised, body |-> None, calls |-> read.calls, chunks |-> read.chunks ]

\* upload_docx from the text read_docx_upload returned.
UploadFrom(file, read, text) ==
    LET citations == Citations(text)
    IN  [ raised |-> None,
          body |-> Some([ filename |-> file.filename,
                          citation_count |-> Len(citations),
                          citations |-> citations,
                          extracted_text_preview |-> Preview(text) ]),
          calls |-> read.calls \o << "find_citations" >>,
          chunks |-> read.chunks ]

\* The handler once read_docx_upload has ended.
UploadAfter(file, read) ==
    IF read.raised # None THEN Propagate(read) ELSE UploadFrom(file, read, read.value[1])

upload_docx(file) == UploadAfter(file, read_docx_upload(file))

\* debug_docx from the text read_docx_upload returned.
DebugFrom(file, read, text) ==
    [ raised |-> None,
      body |-> Some([ filename |-> file.filename,
                      raw_extracted_text |-> text,
                      character_count |-> Len(text),
                      pattern_diagnostics |->
                          build_pattern_diagnostics(text, PATTERN_SPECS, DefaultSampleLimit) ]),
      calls |-> read.calls \o << "build_pattern_diagnostics" >>,
      chunks |-> read.chunks ]

\* The handler once read_docx_upload has ended.
DebugAfter(file, read) ==
    IF read.raised # None THEN Propagate(read) ELSE DebugFrom(file, read, read.value[1])

debug_docx(file) == DebugAfter(file, read_docx_upload(file))

----------------------------------------------------------------------------
(* Inputs.                                                                 *)

MaxBodyParagraphs == 1

MaxEntries == 1

MaxFragments == 3

MaxPhrases == 2

MaxSampleLimit == 2

\* The sequences over S of length at most n.
SeqsUpTo(S, n) == UNION { [1..k -> S] : k \in 0..n }

\* Body paragraphs: a citation split over two runs around a no-break space,
\* and a paragraph of a table cell that ends with a run of blanks.
BodyParagraphs ==
    { [ in_table |-> FALSE, runs |-> << <<"1", " ", "C", "F", "R">>, <<"U+00A0", "U+00A7", " ", "2">> >> ],
      [ in_table |-> TRUE, runs |-> << <<"1", " ", "U", "S", "C", " ", "U+00A7", " ", "2">>, <<" ", " ">> >> ] }

\* Children of the root of a footnotes part: a separator entry, flagged by
\* its type, and a footnote of the author, its citation split over two runs.
SeparatorEntry ==
    [ footnote |-> TRUE, type |-> "separator",
      paragraphs |-> << << <<"A", "d", "m", "i", "n", " ", "5", " ", "U+00A7", " ", "6">> >> >> ]

AuthoredEntry ==
    [ footnote |-> TRUE, type |-> "",
      paragraphs |-> << << <<"R", "e", "g", "s", " ", "1">>, <<" ", "U+00A7", " ", "2">> >> >> ]

FootnoteEntries == { SeparatorEntry, AuthoredEntry }

\* A footnotes part as the parser loads it: with its XML element, or as an
\* opaque part without one.
FootnotesParts ==
    { [ has_element |-> TRUE, entries |-> e ] : e \in SeqsUpTo(FootnoteEntries, MaxEntries) }
        \cup { [ has_element |-> FALSE, entries |-> << AuthoredEntry >> ] }

HeaderRel ==
    [ reltype |-> "/header",
      part |-> [ has_element |-> TRUE,
                 entries |-> << [ footnote |-> FALSE, type |-> "",
                                  paragraphs |-> << << <<"D", "o", "e", ",", " ", "1", " ", "F", " ", "a", "t", " ", "2">> >> >> ] >> ] ]

ImageRel ==
    [ reltype |-> "/image", part |-> [ has_element |-> FALSE, entries |-> << >> ] ]

\* document.part.rels: at most one footnotes part, then at most one other part.
RelSeqs ==
    { notes \o other :
        notes \in { << >> } \cup { << [ reltype |-> "/footnotes", part |-> p ] >> :
                                     p \in FootnotesParts },
        other \in { << >>, << HeaderRel >>, << ImageRel >> } }

Documents ==
    { [ body |-> b, rels |-> r ] : b \in SeqsUpTo(BodyParagraphs, MaxBodyParagraphs),
                                   r \in RelSeqs }

EmptyPayload == [ length |-> 0, package |-> None ]

PlainTextPayload == [ length |-> 1, package |-> None ]

DocxPayload(document) == [ length |-> 1, package |-> Some(document) ]

Payloads == { EmptyPayload, PlainTextPayload } \cup { DocxPayload(d) : d \in Documents }

Filenames ==
    { None, Some(<<"n", "o", "t", "e", "s", ".", "t", "x", "t">>), Some(<<"B", "r", "i", "e", "f", ".", "D", "O", "C", "X">>), Some(<<"d", "o", "c", "x">>) }

Files == { [ filename |-> f, payload |-> p ] : f \in Filenames, p \in Payloads }

\* Collected fragments: variant spaces, zero-width characters between
\* blanks, runs of blanks.
Fragments ==
    { <<"a">>,
      <<"a", "U+00A0", "U+2007", "a">>,
      <<"a", " ", "U+2060", " ", "a">>,
      <<"U+FEFF", "a">>,
      <<"a", "U+2009", "U+200A", "U+202F", "a">>,
      <<"a", " ", " ", "a">>,
      <<"U+2060">>,
      <<"a", "\t", "U+2003", "a">> }

\* Phrases of a document: a citation, a phrase of three citations of two
\* types, one of them split by a no-break space, a citation read by two
\* recognizers, and the text of Scenario A.
ScenarioA == <<"B", "r", "o", "w", "n", " ", "v", ".", " ", "B", "o", "a", "r", "d", " ", "o", "f", " ", "E", "d", "u", "c", "a", "t", "i", "o", "n", ",", " ", "3", "4", "7", " ", "U", ".", "S", ".", " ", "4", "8", "3", " ", "(", "1", "9", "5", "4", ")", ".">>

Phrases ==
    { <<"R", "e", "g", "s", " ", "1", " ", "U+00A7", " ", "2">>,
      <<"A", "d", "m", "i", "n", " ", "5", " ", "U+00A7", " ", "6", ";", " ", "1", " ", "C", "F", "R", "U+00A0", "U+00A7", " ", "2", ";", " ", "R", "e", "g", "s", " ", "1", " ", "U+00A7", " ", "2">>,
      <<"F", "D", "A", " ", "G", "u", "i", "d", "a", "n", "c", "e", "-", " ", "D", "o", "e", ",", " ", "1", " ", "F", " ", "a", "t", " ", "2">>,
      ScenarioA }

\* The buffers extract_docx_text makes of at most MaxPhrases phrases.
Buffers ==
    { normalize_extracted_text(Join("\n", p)) : p \in SeqsUpTo(Phrases, MaxPhrases) }

SampleLimits == 0..MaxSampleLimit

----------------------------------------------------------------------------
(* State.                                                                  *)
(*   request, outcome       the file a handler was called with and how the *)
(*                          call ended;                                    *)
(*   fragments, normalized  collected fragments and the buffer made of     *)
(*                          them;                                          *)
(*   buffer, citations,     a normalized buffer, the citation list of the  *)
(*   diagnostics            primary path and the report of the diagnostics *)
(*                          path over it;                                  *)
(*   earlier                the buffer and the citation list of the run    *)
(*                          before the latest one.                         *)
(* Each is None until it is set.                                           *)

VARIABLES request, outcome, fragments, normalized, buffer, citations, diagnostics, earlier

vars == << request, outcome, fragments, normalized, buffer, citations, diagnostics, earlier >>

serviceVars == << request, outcome >>

normVars == << fragments, normalized >>

matchVars == << buffer, citations, diagnostics, earlier >>

----------------------------------------------------------------------------
(* The service: one request to one of the two endpoints.                   *)

Init ==
    /\ request = None
    /\ outcome = None
    /\ fragments = None
    /\ normalized = None
    /\ buffer = None
    /\ citations = None
    /\ diagnostics = None
    /\ earlier = None

\* POST /upload
UploadDocx ==
    /\ request = None
    /\ \E file \in Files :
           /\ request' = Some([ path |-> "/upload", file |-> file ])
           /\ outcome' = Some(upload_docx(file))
    /\ UNCHANGED << normVars, matchVars >>

\* POST /debug
DebugDocx ==
    /\ request = None
    /\ \E file \in Files :
           /\ request' = Some([ path |-> "/debug", file |-> file ])
           /\ outcome' = Some(debug_docx(file))
    /\ UNCHANGED << normVars, matchVars >>

Next ==
    \/ UploadDocx
    \/ DebugDocx

Spec == Init /\ [][Next]_vars

----------------------------------------------------------------------------
(* The normalizer over collected fragments.                                *)

InitNorm ==
    /\ fragments \in { Some(f) : f \in SeqsUpTo(Fragments, MaxFragments) }
    /\ normalized = None
    /\ request = None
    /\ outcome = None
    /\ buffer = None
    /\ citations = None
    /\ diagnostics = None
    /\ earlier = None

\* extract_docx_text, lines 255-256
Normalize ==
    /\ normalized = None
    /\ normalized' = Some(normalize_extracted_text(Join("\n", fragments[1])))
    /\ UNCHANGED << fragments, serviceVars, matchVars >>

NextNorm == Normalize

SpecNorm == InitNorm /\ [][NextNorm]_vars

----------------------------------------------------------------------------
(* The matcher and the diagnostics reporter over one buffer.               *)

InitMatch ==
    /\ buffer \in { Some(b) : b \in Buffers }
    /\ citations = None
    /\ diagnostics = None
    /\ earlier = None
    /\ request = None
    /\ outcome = None
    /\ fragments = None
    /\ normalized = None

\* upload_docx, lines 279-281
Match ==
    /\ citations = None
    /\ citations' = Some(Citations(buffer[1]))
    /\ UNCHANGED << buffer, diagnostics, earlier, serviceVars, normVars >>

\* build_pattern_diagnostics over the buffer the primary path has matched
Diagnose(sample_limit) ==
    /\ citations # None
    /\ diagnostics = None
    /\ diagnostics' = Some([ sample_limit |-> sample_limit,
                             records |-> build_pattern_diagnostics(buffer[1], PATTERN_SPECS,
                                                                   sample_limit) ])
    /\ UNCHANGED << buffer, citations, earlier, serviceVars, normVars >>

NextMatch ==
    \/ Match
    \/ \E sample_limit \in SampleLimits : Diagnose(sample_limit)

SpecMatch == InitMatch /\ [][NextMatch]_vars

----------------------------------------------------------------------------
(* Two runs of the matcher, one after the other.                           *)

\* The buffers of one cited phrase or of two.
RunBuffers ==
    LET cited == Phrases \ { ScenarioA }
    IN  { normalize_extracted_text(Join("\n", p)) :
            p \in { << x >> : x \in cited } \cup { << x, y >> : x, y \in cited } }

InitRuns ==
    /\ buffer \in { Some(b) : b \in RunBuffers }
    /\ citations = None
    /\ earlier = None
    /\ diagnostics = None
    /\ request = None
    /\ outcome = None
    /\ fragments = None
    /\ normalized = None

Run ==
    /\ citations = None
    /\ citations' = Some(Citations(buffer[1]))
    /\ UNCHANGED << buffer, earlier, diagnostics, serviceVars, normVars >>

\* The next run starts: over the same buffer or another.
Resubmit(next_buffer) ==
    /\ citations # None
    /\ earlier = None
    /\ earlier' = Some([ buffer |-> buffer[1], citations |-> citations[1] ])
    /\ buffer' = Some(next_buffer)
    /\ citations' = None
    /\ UNCHANGED << diagnostics, serviceVars, normVars >>

NextRuns ==
    \/ Run
    \/ \E next_buffer \in RunBuffers : Resubmit(next_buffer)

SpecRuns == InitRuns /\ [][NextRuns]_vars

----------------------------------------------------------------------------
(* Properties.                                                             *)

\* The place of a citation type in the registry.
RegistryIndex(citation_type) ==
    CHOOSE k \in DOMAIN PATTERN_SPECS : PATTERN_SPECS[k][1] = citation_type

\* The trimmed texts of the matches of the k-th recognizer, in scan order.
ScanTexts(text, k) ==
    LET found == finditer(PATTERN_SPECS[k][2], text)
    IN  Tuple([ m \in DOMAIN found |-> strip(Group1(text, found[m])) ])

\* The place in the scan where value is matched first, 0 if it never is.
FirstOccurrence(scan, value) ==
    LET places == { m \in DOMAIN scan : scan[m] = value }
    IN  IF places = {} THEN 0 ELSE CHOOSE m \in places : \A n \in places : m <= n

\* The texts of the records of one type, in list order.
TextsOfType(records, citation_type) ==
    LET typed == SelectSeq(records, LAMBDA r : r.type = citation_type)
    IN  Tuple([ k \in DOMAIN typed |-> typed[k].text ])

Min(a, b) == IF a < b THEN a ELSE b

\* C1: the citation list of the primary path never holds two records with the
\* same type and the same trimmed text, however often and wherever the text is
\* matched in the buffer.
C1_PerTypeUniqueness ==
    citations # None =>
        \A i, j \in DOMAIN citations[1] :
            i # j => ~( /\ citations[1][i].type = citations[1][j].type
                        /\ citations[1][i].text = citations[1][j].text )

\* A recognizer has matched one text twice, the second time behind a blank,
\* and the list was built.
C1_Witness ==
    /\ citations # None
    /\ citations[1] # << >>
    /\ \E k \in DOMAIN PATTERN_SPECS :
           LET found == finditer(PATTERN_SPECS[k][2], buffer[1])
           IN  \E a, b \in DOMAIN found :
                   /\ a < b
                   /\ Group1(buffer[1], found[a]) # Group1(buffer[1], found[b])
                   /\ strip(Group1(buffer[1], found[a])) = strip(Group1(buffer[1], found[b]))

\* C2: the normalized buffer holds none of U+00A0, U+2007, U+2009, U+200A,
\* U+202F, U+2060, U+FEFF and never two ASCII spaces in a row.
C2_NormalizationInvariant ==
    normalized # None =>
        \A k \in DOMAIN normalized[1] :
            /\ normalized[1][k] \notin
                   { "U+00A0", "U+2007", "U+2009", "U+200A", "U+202F", "U+2060", "U+FEFF" }
            /\ k > 1 => ~(normalized[1][k - 1] = " " /\ normalized[1][k] = " ")

\* Fragments with a variant space, and with a zero-width character between
\* two spaces, were normalized to a buffer that is not empty.
C2_Witness ==
    /\ normalized # None
    /\ normalized[1] # << >>
    /\ LET joined == Join("\n", fragments[1])
           translated == Translate(joined)
       IN  /\ \E k \in DOMAIN joined : joined[k] \in { "U+00A0", "U+2007", "U+2009" }
           /\ \E k \in DOMAIN joined :
                  /\ 1 < k /\ k < Len(joined)
                  /\ joined[k] = "U+2060" /\ joined[k - 1] = " " /\ joined[k + 1] = " "
           /\ \E k \in DOMAIN translated :
                  k > 1 /\ translated[k - 1] = " " /\ translated[k] = " "

\* C3: for every type of the registry, the number of records of that type in
\* the list of the primary path equals the match_count the diagnostics path
\* reports for the type on the same buffer, whatever the sample limit.
C3_DiagnosticsMatchConsistency ==
    (citations # None /\ diagnostics # None) =>
        \A k \in DOMAIN PATTERN_SPECS :
            LET of_type == SelectSeq(diagnostics[1].records,
                                     LAMBDA d : d.type = PATTERN_SPECS[k][1])
            IN  /\ Len(of_type) = 1
                /\ of_type[1].match_count =
                       Len(TextsOfType(citations[1], PATTERN_SPECS[k][1]))

\* Both paths ran over a buffer in which a recognizer matches a text twice,
\* and the report shows fewer samples than it counts.
C3_Witness ==
    /\ citations # None
    /\ diagnostics # None
    /\ \E k \in DOMAIN PATTERN_SPECS :
           /\ Len(finditer(PATTERN_SPECS[k][2], buffer[1])) >
                  Len(TextsOfType(citations[1], PATTERN_SPECS[k][1]))
           /\ diagnostics[1].records[k].match_count >
                  Len(diagnostics[1].records[k].samples)

\* C4: in the list of the primary path a record of an earlier type of the
\* registry precedes every record of a later type, and the records of one type
\* stand in the order in which their texts are first matched in the scan.
C4_OutputOrdering ==
    citations # None =>
        \A i, j \in DOMAIN citations[1] :
            i < j =>
                LET ti == RegistryIndex(citations[1][i].type)
                    tj == RegistryIndex(citations[1][j].type)
                    scan == ScanTexts(buffer[1], ti)
                IN  \/ ti < tj
                    \/ /\ ti = tj
                       /\ 0 < FirstOccurrence(scan, citations[1][i].text)
                       /\ FirstOccurrence(scan, citations[1][i].text)
                              < FirstOccurrence(scan, citations[1][j].text)

\* The list holds records of two types, and two of one type whose first text
\* is matched again after the second.
C4_Witness ==
    /\ citations # None
    /\ \E i, j \in DOMAIN citations[1] : citations[1][i].type # citations[1][j].type
    /\ \E i, j \in DOMAIN citations[1] :
           /\ i < j
           /\ citations[1][i].type = citations[1][j].type
           /\ LET scan == ScanTexts(buffer[1], RegistryIndex(citations[1][i].type))
              IN  \E a, b, c \in DOMAIN scan :
                      /\ a < b /\ b < c
                      /\ scan[a] = citations[1][i].text
                      /\ scan[b] = citations[1][j].text
                      /\ scan[c] = citations[1][i].text

\* The text nodes, trimmed, of the entries of the footnotes parts of a
\* document that carry a type attribute.
FlaggedFootnoteTexts(document) ==
    { strip(t) : t \in UNION { Range(para) :
        para \in UNION { Range(e.paragraphs) :
            e \in UNION { { x \in Range(rel.part.entries) : x.footnote /\ x.type # "" } :
                rel \in { r \in Range(document.rels) : r.reltype = "/footnotes" } } } } }

UnsupportedFormat == HTTPException(400, "Only .docx files are supported.")

EmptyInput == HTTPException(400, "Uploaded file is empty.")

UnparseableDocument == HTTPException(400, "Unable to parse .docx file.")

\* C5: text inside a footnote entry flagged with a type attribute never
\* becomes a collected fragment of extract_docx_text.
C5_FlaggedFootnotesSkipped ==
    (outcome # None /\ outcome[1].chunks # None) =>
        \A t \in FlaggedFootnoteTexts(request[1].file.payload.package[1]) :
            t \notin Range(outcome[1].chunks[1])

\* C6 as amended: a request with a payload of zero length returns nothing and
\* never reaches the parser; it ends with the empty-input failure when its
\* filename ends with .docx, and with the unsupported-format failure when it
\* has a filename that does not.
C6_EmptyPayload ==
    (outcome # None /\ request[1].file.payload.length = 0) =>
        LET filename == request[1].file.filename
        IN  /\ outcome[1].raised # None
            /\ outcome[1].body = None
            /\ "extract_docx_text" \notin Range(outcome[1].calls)
            /\ "Document" \notin Range(outcome[1].calls)
            /\ filename # None =>
                   IF endswith(lower(filename[1]), DocxSuffix)
                   THEN outcome[1].raised = Some(EmptyInput)
                   ELSE outcome[1].raised = Some(UnsupportedFormat)

\* An empty payload named Brief.DOCX ended with the empty-input failure.
C6_Witness ==
    /\ outcome # None
    /\ request[1].file.payload.length = 0
    /\ request[1].file.filename = Some(<<"B", "r", "i", "e", "f", ".", "D", "O", "C", "X">>)
    /\ outcome[1].raised = Some(EmptyInput)
    /\ outcome[1].calls = << "read_docx_upload" >>

\* C6 as stated, for the requests that carry a filename: every request with a
\* payload of zero length ends with the empty-input failure, without the parser
\* being invoked and without a result.
C6_EmptyInputAlways ==
    (/\ outcome # None
     /\ request[1].file.payload.length = 0
     /\ request[1].file.filename # None) =>
        /\ outcome[1].raised = Some(EmptyInput)
        /\ "extract_docx_text" \notin Range(outcome[1].calls)
        /\ outcome[1].body = None

\* C7: every request ends with a complete result or with one of the three
\* categorised failures and no result; a parsed payload is collected,
\* normalized and matched to the end.
C7_CategorisedFailures ==
    outcome # None =>
        \/ /\ outcome[1].raised = None
           /\ outcome[1].body # None
           /\ outcome[1].chunks # None
           /\ outcome[1].calls \in
                  { << "read_docx_upload", "extract_docx_text", "Document",
                       "normalize_extracted_text", "find_citations" >>,
                    << "read_docx_upload", "extract_docx_text", "Document",
                       "normalize_extracted_text", "build_pattern_diagnostics" >> }
        \/ /\ outcome[1].raised \in
                  { Some(UnsupportedFormat), Some(EmptyInput), Some(UnparseableDocument) }
           /\ outcome[1].body = None

\* C8: the case recognizer finds exactly one record in the text of Scenario A,
\* the text without its final period.
C8_ScenarioA ==
    (citations # None /\ buffer = Some(ScenarioA)) =>
        LET cases == SelectSeq(citations[1], LAMBDA r : r.type = "case")
        IN  /\ Len(cases) = 1
            /\ cases[1].text = SubSeq(ScenarioA, 1, Len(ScenarioA) - 1)

\* C9: the report holds one record per entry of the registry, in registry
\* order, those without a match included, and the samples of a record are the
\* first min(match_count, N) unique texts of its type in match order.
C9_DiagnosticsShape ==
    (citations # None /\ diagnostics # None) =>
        LET records == diagnostics[1].records
            limit == diagnostics[1].sample_limit
        IN  /\ Len(records) = Len(PATTERN_SPECS)
            /\ \A k \in DOMAIN PATTERN_SPECS :
                   LET unique == TextsOfType(citations[1], PATTERN_SPECS[k][1])
                   IN  /\ records[k].type = PATTERN_SPECS[k][1]
                       /\ Len(records[k].samples) = Min(records[k].match_count, limit)
                       /\ records[k].samples = SubSeq(unique, 1, Len(records[k].samples))

\* A report with a limit of one: a type with two unique texts, a type with
\* one, and a type without a match.
C9_Witness ==
    /\ diagnostics # None
    /\ diagnostics[1].sample_limit = 1
    /\ \E k \in DOMAIN PATTERN_SPECS : diagnostics[1].records[k].match_count = 2
    /\ \E k \in DOMAIN PATTERN_SPECS : diagnostics[1].records[k].match_count = 1
    /\ \E k \in DOMAIN PATTERN_SPECS :
           /\ diagnostics[1].records[k].match_count = 0
           /\ diagnostics[1].records[k].samples = << >>

\* The records of the latest run and of the run before it.
RecordsOfRuns ==
    (IF citations = None THEN {} ELSE Range(citations[1]))
        \cup (IF earlier = None THEN {} ELSE Range(earlier[1].citations))

\* C10: the status of a record is one of valid, review, invalid and depends on
\* its text alone, within a run and across two runs, whatever the type and the
\* place of the match; two runs over one buffer return the same list.
C10_StatusStability ==
    /\ \A r \in RecordsOfRuns : r.status \in { "valid", "review", "invalid" }
    /\ \A r1, r2 \in RecordsOfRuns : r1.text = r2.text => r1.status = r2.status
    /\ (citations # None /\ earlier # None /\ earlier[1].buffer = buffer[1]) =>
           citations[1] = earlier[1].citations

\* Two runs over one buffer, in which one text is a record of two types and
\* the records differ in status.
C10_Witness ==
    /\ citations # None
    /\ earlier # None
    /\ earlier[1].buffer = buffer[1]
    /\ \E i, j \in DOMAIN citations[1] :
           /\ citations[1][i].type # citations[1][j].type
           /\ citations[1][i].text = citations[1][j].text
    /\ \E i, j \in DOMAIN citations[1] : citations[1][i].status # citations[1][j].status

====
